---------------------------- MODULE Spec2Model ----------------------------
(***************************************************************************)
(* Model of the two ComfyUI nodes of ComfyUI-Outpainting-Gemini:           *)
(*   - NanaBananaPadCalculator.calculate (nano_banana_pad.py): resolves a  *)
(*     source image size against the static DIMENSION_MAP table and        *)
(*     computes the centring pads;                                         *)
(*   - GeminiImageGenerate.generate (__init__.py): one blocking HTTP call  *)
(*     followed by the decoding of the returned image.                     *)
(* The host invokes one entry point per run; both nodes are stateless, so  *)
(* the state is the record of one invocation: its arguments, the position  *)
(* of the handler and what it returned or raised.                          *)
(***************************************************************************)
EXTENDS Integers, Sequences, FiniteSets, TLC

VARIABLES
  entry,         \* FUNCTION of the invoked node: "calculate" or "generate"
  pc,            \* "call", "in_flight" (blocked in requests.post), "done", "error"
  W, H,          \* image.shape = (batch, H, W, C)
  aspect_ratio,  \* the aspect_ratio argument
  resolution,    \* the resolution argument
  model,         \* the model argument of generate ("" for calculate)
  ret,           \* <<>> or <<the tuple returned by the entry point>>
  err,           \* "" or the exception raised, named after its raise site
  trace,         \* the stages the call went through, in order
  sent,          \* generate: the HTTP requests issued by this invocation
  resp           \* generate: <<>> or <<[status, body]>> returned by requests.post

vars == <<entry, pc, W, H, aspect_ratio, resolution, model, ret, err, trace,
          sent, resp>>

(***************************************************************************)
(* The static table.  A Python dict keeps insertion order, which the       *)
(* stable sort of find_best_fit makes observable, so the table is a        *)
(* sequence of rows in source order.                                       *)
(***************************************************************************)
DIMENSION_MAP_no_square ==
  << [api_ratio |-> "5:4",  res_map |-> << [res |-> "1K", dim |-> <<1152, 928>>],
                                           [res |-> "2K", dim |-> <<2304, 1856>>],
                                           [res |-> "4K", dim |-> <<4608, 3712>>] >>],
     [api_ratio |-> "4:5",  res_map |-> << [res |-> "1K", dim |-> <<928, 1152>>],
                                           [res |-> "2K", dim |-> <<1856, 2304>>],
                                           [res |-> "4K", dim |-> <<3712, 4608>>] >>],
     [api_ratio |-> "4:3",  res_map |-> << [res |-> "1K", dim |-> <<1200, 896>>],
                                           [res |-> "2K", dim |-> <<2400, 1792>>],
                                           [res |-> "4K", dim |-> <<4800, 3584>>] >>],
     [api_ratio |-> "3:4",  res_map |-> << [res |-> "1K", dim |-> <<896, 1200>>],
                                           [res |-> "2K", dim |-> <<1792, 2400>>],
                                           [res |-> "4K", dim |-> <<3584, 4800>>] >>],
     [api_ratio |-> "3:2",  res_map |-> << [res |-> "1K", dim |-> <<1264, 848>>],
                                           [res |-> "2K", dim |-> <<2528, 1696>>],
                                           [res |-> "4K", dim |-> <<5056, 3392>>] >>],
     [api_ratio |-> "2:3",  res_map |-> << [res |-> "1K", dim |-> <<848, 1264>>],
                                           [res |-> "2K", dim |-> <<1696, 2528>>],
                                           [res |-> "4K", dim |-> <<3392, 5056>>] >>],
     [api_ratio |-> "16:9", res_map |-> << [res |-> "1K", dim |-> <<1376, 768>>],
                                           [res |-> "2K", dim |-> <<2752, 1536>>],
                                           [res |-> "4K", dim |-> <<5504, 3072>>] >>],
     [api_ratio |-> "9:16", res_map |-> << [res |-> "1K", dim |-> <<768, 1376>>],
                                           [res |-> "2K", dim |-> <<1536, 2752>>],
                                           [res |-> "4K", dim |-> <<3072, 5504>>] >>],
     [api_ratio |-> "21:9", res_map |-> << [res |-> "1K", dim |-> <<1584, 672>>],
                                           [res |-> "2K", dim |-> <<3168, 1344>>],
                                           [res |-> "4K", dim |-> <<6336, 2688>>] >> ] >>

DIMENSION_MAP ==
  << [api_ratio |-> "1:1",  res_map |-> << [res |-> "1K", dim |-> <<1024, 1024>>],
                                           [res |-> "2K", dim |-> <<2048, 2048>>],
                                           [res |-> "4K", dim |-> <<4096, 4096>>] >>],
     [api_ratio |-> "5:4",  res_map |-> << [res |-> "1K", dim |-> <<1152, 928>>],
                                           [res |-> "2K", dim |-> <<2304, 1856>>],
                                           [res |-> "4K", dim |-> <<4608, 3712>>] >>],
     [api_ratio |-> "4:5",  res_map |-> << [res |-> "1K", dim |-> <<928, 1152>>],
                                           [res |-> "2K", dim |-> <<1856, 2304>>],
                                           [res |-> "4K", dim |-> <<3712, 4608>>] >>],
     [api_ratio |-> "4:3",  res_map |-> << [res |-> "1K", dim |-> <<1200, 896>>],
                                           [res |-> "2K", dim |-> <<2400, 1792>>],
                                           [res |-> "4K", dim |-> <<4800, 3584>>] >>],
     [api_ratio |-> "3:4",  res_map |-> << [res |-> "1K", dim |-> <<896, 1200>>],
                                           [res |-> "2K", dim |-> <<1792, 2400>>],
                                           [res |-> "4K", dim |-> <<3584, 4800>>] >>],
     [api_ratio |-> "3:2",  res_map |-> << [res |-> "1K", dim |-> <<1264, 848>>],
                                           [res |-> "2K", dim |-> <<2528, 1696>>],
                                           [res |-> "4K", dim |-> <<5056, 3392>>] >>],
     [api_ratio |-> "2:3",  res_map |-> << [res |-> "1K", dim |-> <<848, 1264>>],
                                           [res |-> "2K", dim |-> <<1696, 2528>>],
                                           [res |-> "4K", dim |-> <<3392, 5056>>] >>],
     [api_ratio |-> "16:9", res_map |-> << [res |-> "1K", dim |-> <<1376, 768>>],
                                           [res |-> "2K", dim |-> <<2752, 1536>>],
                                           [res |-> "4K", dim |-> <<5504, 3072>>] >>],
     [api_ratio |-> "9:16", res_map |-> << [res |-> "1K", dim |-> <<768, 1376>>],
                                           [res |-> "2K", dim |-> <<1536, 2752>>],
                                           [res |-> "4K", dim |-> <<3072, 5504>>] >>],
     [api_ratio |-> "21:9", res_map |-> << [res |-> "1K", dim |-> <<1584, 672>>],
                                           [res |-> "2K", dim |-> <<3168, 1344>>],
                                           [res |-> "4K", dim |-> <<6336, 2688>>] >> ] >>

VALID_ASPECT_RATIOS ==
  <<"auto", "1:1", "5:4", "4:5", "4:3", "3:4", "3:2", "2:3", "16:9", "9:16", "21:9">>

VALID_RESOLUTIONS == <<"auto", "1K", "2K", "4K">>

\* x in list
InList(x, list) == \E i \in 1..Len(list) : list[i] = x

(***************************************************************************)
(* Python compares str values by code point.  The labels are made of the   *)
(* digits (48..57) and the colon (58), so "16:9" < "1:1" and               *)
(* "21:9" < "2:3".                                                         *)
(***************************************************************************)
CodePoints(s) ==
  CASE s = "1:1"  -> <<49, 58, 49>>
    [] s = "5:4"  -> <<53, 58, 52>>
    [] s = "4:5"  -> <<52, 58, 53>>
    [] s = "4:3"  -> <<52, 58, 51>>
    [] s = "3:4"  -> <<51, 58, 52>>
    [] s = "3:2"  -> <<51, 58, 50>>
    [] s = "2:3"  -> <<50, 58, 51>>
    [] s = "16:9" -> <<49, 54, 58, 57>>
    [] s = "9:16" -> <<57, 58, 49, 54>>
    [] s = "21:9" -> <<50, 49, 58, 57>>

RECURSIVE SeqLess(_, _)
SeqLess(a, b) ==
  IF b = <<>> THEN FALSE
  ELSE IF a = <<>> THEN TRUE
  ELSE IF Head(a) # Head(b) THEN Head(a) < Head(b)
  ELSE SeqLess(Tail(a), Tail(b))

\* str.__lt__
StrLess(a, b) == SeqLess(CodePoints(a), CodePoints(b))

(***************************************************************************)
(* list.sort: stable and ascending.  The elements are decorated with       *)
(* their sort key, as list.sort(key=...) does: <<area>> for the key        *)
(* function of find_best_fit, <<area, api_ratio>> where the (area,         *)
(* api_ratio) tuples themselves are compared.  An element is inserted      *)
(* after every element that is not greater.                                *)
(***************************************************************************)
KeyLess(a, b) ==
  IF a[1] # b[1] THEN a[1] < b[1]
  ELSE IF Len(a) > 1 /\ Len(b) > 1 THEN StrLess(a[2], b[2])
  ELSE Len(a) < Len(b)

InsertSorted(x, s) ==
  LET after == {i \in 1..Len(s) : KeyLess(x.key, s[i].key)}
      k     == IF after = {} THEN Len(s) + 1
               ELSE CHOOSE i \in after : \A j \in after : i <= j
  IN  SubSeq(s, 1, k - 1) \o <<x>> \o SubSeq(s, k, Len(s))

RECURSIVE ListSort(_)
ListSort(s) ==
  IF s = <<>> THEN <<>>
  ELSE InsertSorted(s[Len(s)], ListSort(SubSeq(s, 1, Len(s) - 1)))

(***************************************************************************)
(* get_all_dimensions: the table flattened to (w, h, api_ratio, res).      *)
(***************************************************************************)
RowDimensions(row) ==
  [i \in 1..Len(row.res_map) |->
     [w |-> row.res_map[i].dim[1], h |-> row.res_map[i].dim[2],
      ar |-> row.api_ratio, res |-> row.res_map[i].res,
      key |-> <<row.res_map[i].dim[1] * row.res_map[i].dim[2]>>]]

RECURSIVE FlattenRows(_)
FlattenRows(rows) ==
  IF rows = <<>> THEN <<>>
  ELSE RowDimensions(Head(rows)) \o FlattenRows(Tail(rows))

get_all_dimensions == FlattenRows(DIMENSION_MAP)

(***************************************************************************)
(* A call either returns a value or raises; the exception is named after   *)
(* the raise site.                                                         *)
(***************************************************************************)
Raise(e) == [err |-> e, val |-> <<>>]
Return(v) == [err |-> "", val |-> <<v>>]

\* get_dimensions(aspect_ratio, resolution)
get_dimensions(ar, res) ==
  LET rows == SelectSeq(DIMENSION_MAP, LAMBDA r : r.api_ratio = ar)
  IN  IF rows = <<>> THEN Raise("UnknownAspectRatio")
      ELSE LET ents == SelectSeq(rows[1].res_map, LAMBDA e : e.res = res)
           IN  IF ents = <<>> THEN Raise("UnknownResolution")
               ELSE Return(ents[1].dim)

\* find_best_fit with the candidates left unsorted
find_best_fit_unsorted(w0, h0, must_grow) ==
  LET candidates ==
        IF must_grow
        THEN SelectSeq(get_all_dimensions,
               LAMBDA d : d.w >= w0 /\ d.h >= h0 /\ (d.w > w0 \/ d.h > h0))
        ELSE SelectSeq(get_all_dimensions, LAMBDA d : d.w >= w0 /\ d.h >= h0)
  IN  IF candidates = <<>> THEN Raise("ExceedsAllSupportedSizes")
      ELSE Return(<<candidates[1].ar, candidates[1].res>>)

\* find_best_fit that ignores must_grow
find_best_fit_no_grow(w0, h0, must_grow) ==
  LET candidates == SelectSeq(get_all_dimensions, LAMBDA d : d.w >= w0 /\ d.h >= h0)
  IN  IF candidates = <<>> THEN Raise("ExceedsAllSupportedSizes")
      ELSE LET sorted == ListSort(candidates)
           IN  Return(<<sorted[1].ar, sorted[1].res>>)

\* find_best_fit(W, H, must_grow)
find_best_fit(w0, h0, must_grow) ==
  LET candidates ==
        IF must_grow
        THEN SelectSeq(get_all_dimensions,
               LAMBDA d : d.w >= w0 /\ d.h >= h0 /\ (d.w > w0 \/ d.h > h0))
        ELSE SelectSeq(get_all_dimensions, LAMBDA d : d.w >= w0 /\ d.h >= h0)
  IN  IF candidates = <<>> THEN Raise("ExceedsAllSupportedSizes")
      ELSE LET sorted == ListSort(candidates)
           IN  Return(<<sorted[1].ar, sorted[1].res>>)

(***************************************************************************)
(* calculate, resolution fixed and aspect_ratio "auto" (lines 140-154):    *)
(* the (tw * th, api_ratio) tuples of the rows that have the resolution    *)
(* and strictly contain the image, in table order, then sorted.            *)
(***************************************************************************)
RowCandidates(row, res, w0, h0) ==
  LET ents == SelectSeq(row.res_map, LAMBDA e : e.res = res)
  IN  IF ents = <<>> THEN <<>>
      ELSE LET tw == ents[1].dim[1]
               th == ents[1].dim[2]
           IN  IF tw >= w0 /\ th >= h0 /\ (tw > w0 \/ th > h0)
               THEN << [key |-> <<tw * th, row.api_ratio>>] >>
               ELSE <<>>

RECURSIVE CollectCandidates(_, _, _, _)
CollectCandidates(rows, res, w0, h0) ==
  IF rows = <<>> THEN <<>>
  ELSE RowCandidates(Head(rows), res, w0, h0) \o CollectCandidates(Tail(rows), res, w0, h0)

\* the same, taking the last candidate of the sorted list
ResolveAspectLargest(w0, h0, res) ==
  LET candidates == CollectCandidates(DIMENSION_MAP, res, w0, h0)
  IN  IF candidates = <<>> THEN Raise("TooLargeForResolution")
      ELSE LET sorted == ListSort(candidates)
           IN  Return(sorted[Len(sorted)].key[2])

ResolveAspect(w0, h0, res) ==
  LET candidates == CollectCandidates(DIMENSION_MAP, res, w0, h0)
  IN  IF candidates = <<>> THEN Raise("TooLargeForResolution")
      ELSE LET sorted == ListSort(candidates)
           IN  Return(sorted[1].key[2])

(***************************************************************************)
(* calculate, aspect_ratio fixed and resolution "auto" (lines 156-166):    *)
(* the first of 1K, 2K, 4K that strictly contains the image; the else      *)
(* branch of the for loop raises.                                          *)
(***************************************************************************)
TierOrderDescending == <<"4K", "2K", "1K">>

TierOrder == <<"1K", "2K", "4K">>

RECURSIVE FirstFit(_, _, _, _)
FirstFit(w0, h0, ar, tiers) ==
  IF tiers = <<>> THEN Raise("TooLargeForAspectRatio")
  ELSE LET d == get_dimensions(ar, Head(tiers))
       IN  IF d.err # "" THEN Raise(d.err)
           ELSE LET tw == d.val[1][1]
                    th == d.val[1][2]
                IN  IF tw >= w0 /\ th >= h0 /\ (tw > w0 \/ th > h0)
                    THEN Return(Head(tiers))
                    ELSE FirstFit(w0, h0, ar, Tail(tiers))

ResolveResolution(w0, h0, ar) == FirstFit(w0, h0, ar, TierOrder)

(***************************************************************************)
(* calculate, lines 168-185: the final lookup, the containment check and   *)
(* the pads.                                                               *)
(***************************************************************************)
\* the check of line 171 dropped
NeverTooSmall(tw, th, w0, h0) == FALSE

\* the check of line 171 with <= for <
TargetNotLarger(tw, th, w0, h0) == tw <= w0 \/ th <= h0

TargetTooSmall(tw, th, w0, h0) == tw < w0 \/ th < h0

\* the odd pixel given to the left / top
PadSplitOddFirst(slack) ==
  LET second == slack \div 2
  IN  <<slack - second, second>>

\* pad_left = pad_h // 2; pad_right = pad_h - pad_left (// is floor division, as \div)
PadSplit(slack) ==
  LET first == slack \div 2
  IN  <<first, slack - first>>

\* lines 177-185: the pads and the returned tuple
PadAndReturn(w0, h0, tw, th, ar1, res1) ==
  [err |-> "",
   val |-> << [pad_left |-> PadSplit(tw - w0)[1], pad_right |-> PadSplit(tw - w0)[2],
               pad_top |-> PadSplit(th - h0)[1], pad_bottom |-> PadSplit(th - h0)[2],
               target_w |-> tw, target_h |-> th,
               aspect_ratio |-> ar1, resolution |-> res1] >>,
   trace |-> <<"get_dimensions", "pad">>]

\* lines 171-185, d being what get_dimensions gave at line 169
CheckAndPad(w0, h0, d, ar1, res1) ==
  IF d.err # ""
  THEN [err |-> d.err, val |-> <<>>, trace |-> <<"get_dimensions">>]
  ELSE IF TargetTooSmall(d.val[1][1], d.val[1][2], w0, h0)
  THEN [err |-> "LargerThanTarget", val |-> <<>>, trace |-> <<"get_dimensions">>]
  ELSE PadAndReturn(w0, h0, d.val[1][1], d.val[1][2], ar1, res1)

\* lines 168-185, with the aspect_ratio and the resolution the auto modes left
LookupAndPad(w0, h0, ar1, res1) ==
  CheckAndPad(w0, h0, get_dimensions(ar1, res1), ar1, res1)

\* the outcome r of an auto branch, an exception or <<aspect_ratio, resolution>>,
\* followed by lines 168-185
AfterAuto(w0, h0, mode, r) ==
  IF r.err # ""
  THEN [err |-> r.err, val |-> <<>>, trace |-> <<mode>>]
  ELSE [LookupAndPad(w0, h0, r.val[1][1], r.val[1][2]) EXCEPT !.trace = <<mode>> \o @]

\* an auto branch that resolved one of the two hints
WithAspect(r, res) == IF r.err # "" THEN r ELSE Return(<<r.val[1], res>>)
WithResolution(r, ar) == IF r.err # "" THEN r ELSE Return(<<ar, r.val[1]>>)

\* lines 136-185: everything after the validation.  ar, res are the arguments;
\* the result carries the stages gone through.
ResolveAndPad(w0, h0, ar, res) ==
  IF ar = "auto" /\ res = "auto"
  THEN AfterAuto(w0, h0, "find_best_fit", find_best_fit(w0, h0, TRUE))
  ELSE IF ar = "auto"
  THEN AfterAuto(w0, h0, "fixed_resolution", WithAspect(ResolveAspect(w0, h0, res), res))
  ELSE IF res = "auto"
  THEN AfterAuto(w0, h0, "fixed_aspect_ratio", WithResolution(ResolveResolution(w0, h0, ar), ar))
  ELSE AfterAuto(w0, h0, "pinned", Return(<<ar, res>>))

\* calculate without the validation of lines 130-134
calculate_unvalidated(w0, h0, ar, res) ==
  [ResolveAndPad(w0, h0, ar, res) EXCEPT !.trace = <<"validate">> \o @]

\* NanaBananaPadCalculator.calculate
calculate(w0, h0, ar, res) ==
  IF ~InList(ar, VALID_ASPECT_RATIOS)
  THEN [err |-> "InvalidAspectRatio", val |-> <<>>, trace |-> <<"validate">>]
  ELSE IF ~InList(res, VALID_RESOLUTIONS)
  THEN [err |-> "InvalidResolution", val |-> <<>>, trace |-> <<"validate">>]
  ELSE [ResolveAndPad(w0, h0, ar, res) EXCEPT !.trace = <<"validate">> \o @]

(***************************************************************************)
(* GeminiImageGenerate.generate.  requests.post blocks until the service   *)
(* answers, the connection fails or the 120 s deadline passes; what the    *)
(* service answers is the environment's choice.                            *)
(***************************************************************************)
MODELS == <<"gemini-3-pro-image-preview", "gemini-3-nano-image-preview">>

\* lines 50-69: the url is templated with the model, the hints go through verbatim
Payload(m, ar, res) ==
  [url_model |-> m, aspectRatio |-> ar, imageSize |-> res, responseModalities |-> <<"Image">>]

\* Response.raise_for_status raises HTTPError for the 4xx and 5xx statuses
RaisesForStatus(status) == 400 <= status /\ status < 600

\* lines 73-85 with resp.json() called before raise_for_status
HandleResponseParseFirst(status, body) ==
  IF body = "not_json"
  THEN [err |-> "JSONDecodeError", val |-> <<>>, trace |-> <<"json">>]
  ELSE IF RaisesForStatus(status)
  THEN [err |-> "HTTPError", val |-> <<>>, trace |-> <<"json", "raise_for_status">>]
  ELSE IF body = "no_inline_data"
  THEN [err |-> "KeyError", val |-> <<>>, trace |-> <<"json", "raise_for_status", "extract">>]
  ELSE IF body = "not_an_image"
  THEN [err |-> "UnidentifiedImageError", val |-> <<>>,
        trace |-> <<"json", "raise_for_status", "extract", "decode">>]
  ELSE [err |-> "", val |-> << [image |-> "tensor"] >>,
        trace |-> <<"json", "raise_for_status", "extract", "decode">>]

\* lines 73-85: what generate does with the response
HandleResponse(status, body) ==
  IF RaisesForStatus(status)
  THEN [err |-> "HTTPError", val |-> <<>>, trace |-> <<"raise_for_status">>]
  ELSE IF body = "not_json"
  THEN [err |-> "JSONDecodeError", val |-> <<>>, trace |-> <<"raise_for_status", "json">>]
  ELSE IF body = "no_inline_data"
  THEN [err |-> "KeyError", val |-> <<>>, trace |-> <<"raise_for_status", "json", "extract">>]
  ELSE IF body = "not_an_image"
  THEN [err |-> "UnidentifiedImageError", val |-> <<>>,
        trace |-> <<"raise_for_status", "json", "extract", "decode">>]
  ELSE [err |-> "", val |-> << [image |-> "tensor"] >>,
        trace |-> <<"raise_for_status", "json", "extract", "decode">>]

(***************************************************************************)
(* The inputs.  calculate only compares W and H with the widths and the    *)
(* heights of the table, so every table value and the values just above    *)
(* it, with one value below them all, stand for every image size; the      *)
(* sizes of the documented examples are added.                             *)
(***************************************************************************)
Slack == 1

ExampleSizes == {800, 1000, 2000}

TableWidths == {get_all_dimensions[i].w : i \in 1..Len(get_all_dimensions)}
TableHeights == {get_all_dimensions[i].h : i \in 1..Len(get_all_dimensions)}

Widths == {1} \cup ExampleSizes \cup {v + k : v \in TableWidths, k \in 0..Slack}
Heights == {1} \cup ExampleSizes \cup {v + k : v \in TableHeights, k \in 0..Slack}

\* "43:24" and "8K" are labels the table does not have
AspectInputs == {VALID_ASPECT_RATIOS[i] : i \in 1..Len(VALID_ASPECT_RATIOS)} \cup {"43:24"}
ResolutionInputs == {VALID_RESOLUTIONS[i] : i \in 1..Len(VALID_RESOLUTIONS)} \cup {"8K"}

Statuses == {200, 300, 404, 503}
Bodies == {"image", "no_inline_data", "not_json", "not_an_image"}

(***************************************************************************)
(* The state machine.                                                      *)
(***************************************************************************)
InitCalculate ==
  /\ entry = "calculate"
  /\ W \in Widths
  /\ H \in Heights
  /\ model = ""

InitGenerate ==
  /\ entry = "generate"
  /\ W \in ExampleSizes
  /\ H \in ExampleSizes
  /\ model \in {MODELS[i] : i \in 1..Len(MODELS)}

Init ==
  /\ InitCalculate \/ InitGenerate
  /\ aspect_ratio \in AspectInputs
  /\ resolution \in ResolutionInputs
  /\ pc = "call"
  /\ ret = <<>>
  /\ err = ""
  /\ trace = <<>>
  /\ sent = <<>>
  /\ resp = <<>>

\* the host runs NanaBananaPadCalculator.calculate
Calculate ==
  /\ entry = "calculate"
  /\ pc = "call"
  /\ LET r == calculate(W, H, aspect_ratio, resolution)
     IN  /\ pc' = IF r.err = "" THEN "done" ELSE "error"
         /\ ret' = r.val
         /\ err' = r.err
         /\ trace' = r.trace
  /\ UNCHANGED <<entry, W, H, aspect_ratio, resolution, model, sent, resp>>

\* generate, lines 42-72: the image is encoded and the request is sent
Post ==
  /\ entry = "generate"
  /\ pc = "call"
  /\ pc' = "in_flight"
  /\ sent' = Append(sent, Payload(model, aspect_ratio, resolution))
  /\ trace' = Append(trace, "post")
  /\ UNCHANGED <<entry, W, H, aspect_ratio, resolution, model, ret, err, resp>>

\* requests.post raises: no connection, or no answer within the timeout
PostRaises ==
  /\ pc = "in_flight"
  /\ pc' = "error"
  /\ err' = "RequestException"
  /\ UNCHANGED <<entry, W, H, aspect_ratio, resolution, model, ret, trace, sent, resp>>

\* requests.post returns a response and generate runs to its end
Receive(status, body) ==
  /\ pc = "in_flight"
  /\ resp' = << [status |-> status, body |-> body] >>
  /\ LET r == HandleResponse(status, body)
     IN  /\ pc' = IF r.err = "" THEN "done" ELSE "error"
         /\ ret' = r.val
         /\ err' = r.err
         /\ trace' = trace \o r.trace
  /\ UNCHANGED <<entry, W, H, aspect_ratio, resolution, model, sent>>

Next ==
  \/ Calculate
  \/ Post
  \/ PostRaises
  \/ \E status \in Statuses, body \in Bodies : Receive(status, body)

Spec == Init /\ [][Next]_vars

(***************************************************************************)
(* Vocabulary of the properties.                                           *)
(***************************************************************************)
Entries == {get_all_dimensions[i] : i \in 1..Len(get_all_dimensions)}
Labels == {e.ar : e \in Entries}
Tiers == <<"1K", "2K", "4K">>

Area(e) == e.w * e.h
Contains(e, w0, h0) == e.w >= w0 /\ e.h >= h0
StrictlyContains(e, w0, h0) == Contains(e, w0, h0) /\ (e.w > w0 \/ e.h > h0)
EntryOf(ar, res) == CHOOSE e \in Entries : e.ar = ar /\ e.res = res

\* the result names the table entry e
IsTarget(r, e) ==
  /\ r.target_w = e.w
  /\ r.target_h = e.h
  /\ r.aspect_ratio = e.ar
  /\ r.resolution = e.res

\* the error classes of the specification, by raise site
UnknownParameter == {"InvalidAspectRatio", "InvalidResolution"}
SizeExceeded == {"ExceedsAllSupportedSizes", "TooLargeForResolution", "TooLargeForAspectRatio"}
OversizedExplicitTarget == {"LargerThanTarget"}

Calculated == entry = "calculate" /\ pc # "call"
AutoAuto == aspect_ratio = "auto" /\ resolution = "auto"
FixedResolution == aspect_ratio = "auto" /\ resolution \in {"1K", "2K", "4K"}
FixedAspect == aspect_ratio \in Labels /\ resolution = "auto"
Pinned == aspect_ratio \in Labels /\ resolution \in {"1K", "2K", "4K"}
Oversized == (\A e \in Entries : W > e.w) /\ (\A e \in Entries : H > e.h)

(***************************************************************************)
(* C1 as stated: for every source that some table entry contains, an       *)
(* auto/auto call succeeds and returns a target that contains the source   *)
(* and whose area is the minimum over the entries that contain the source, *)
(* an exact match included.                                                *)
(***************************************************************************)
C1_AsStated ==
  (Calculated /\ AutoAuto /\ \E e \in Entries : Contains(e, W, H)) =>
    /\ pc = "done"
    /\ ret # <<>>
    /\ ret[1].target_w >= W
    /\ ret[1].target_h >= H
    /\ \E e \in Entries : Contains(e, W, H) /\ Area(e) = ret[1].target_w * ret[1].target_h
    /\ \A e \in Entries : Contains(e, W, H) => ret[1].target_w * ret[1].target_h <= Area(e)

(***************************************************************************)
(* C1 amended: for every source that some table entry strictly contains,   *)
(* an auto/auto call succeeds and returns a target that contains the       *)
(* source and whose area is the minimum over the entries that strictly     *)
(* contain the source (an exact match is not a candidate).                 *)
(***************************************************************************)
C1_MinAreaStrict ==
  (Calculated /\ AutoAuto /\ \E e \in Entries : StrictlyContains(e, W, H)) =>
    /\ pc = "done"
    /\ ret # <<>>
    /\ ret[1].target_w >= W
    /\ ret[1].target_h >= H
    /\ \E e \in Entries :
         StrictlyContains(e, W, H) /\ Area(e) = ret[1].target_w * ret[1].target_h
    /\ \A e \in Entries :
         StrictlyContains(e, W, H) => ret[1].target_w * ret[1].target_h <= Area(e)

\* an auto/auto call on a source that equals the table entry 1:1 @ 1K
C1_Witness ==
  /\ Calculated /\ AutoAuto /\ pc = "done"
  /\ W = 1024 /\ H = 1024
  /\ ret[1].target_w = 2048 /\ ret[1].target_h = 2048

(***************************************************************************)
(* C2: with both hints "auto", calculate returns the label, tier and       *)
(* dimensions of a table entry that strictly contains the source and has   *)
(* the smallest area among those that do; it fails, with the SizeExceeded  *)
(* error, exactly when no entry strictly contains the source.  1000x1000   *)
(* gives 1024x1024 ("1:1", "1K") with pads (12, 12, 12, 12).               *)
(***************************************************************************)
C2_AutoAuto ==
  (Calculated /\ AutoAuto) =>
    /\ pc = "error" <=> ~ \E e \in Entries : StrictlyContains(e, W, H)
    /\ pc = "error" => err = "ExceedsAllSupportedSizes" /\ ret = <<>>
    /\ pc = "done" =>
         \E e \in Entries :
           /\ StrictlyContains(e, W, H)
           /\ IsTarget(ret[1], e)
           /\ \A e2 \in Entries : StrictlyContains(e2, W, H) => Area(e) <= Area(e2)
    /\ (W = 1000 /\ H = 1000) =>
         /\ pc = "done"
         /\ ret[1] = [pad_left |-> 12, pad_right |-> 12, pad_top |-> 12, pad_bottom |-> 12,
                      target_w |-> 1024, target_h |-> 1024,
                      aspect_ratio |-> "1:1", resolution |-> "1K"]

\* the documented example has been computed
C2_Witness ==
  /\ Calculated /\ AutoAuto /\ pc = "done"
  /\ W = 1000 /\ H = 1000
  /\ ret[1].aspect_ratio = "1:1"

(***************************************************************************)
(* C3: every successful calculate call returns pads that centre the        *)
(* source in the target: the pads of an axis add up to the slack of that   *)
(* axis, the left / top pad is the floor of half the slack, all pads are   *)
(* >= 0, the target is not smaller than the source, and the right /        *)
(* bottom pad exceeds the left / top one by 0 or 1.                        *)
(***************************************************************************)
C3_PadsCentre ==
  (entry = "calculate" /\ pc = "done") =>
    LET r == ret[1]
    IN  /\ r.pad_left + r.pad_right = r.target_w - W
        /\ r.pad_top + r.pad_bottom = r.target_h - H
        /\ 2 * r.pad_left <= r.target_w - W /\ r.target_w - W < 2 * r.pad_left + 2
        /\ 2 * r.pad_top <= r.target_h - H /\ r.target_h - H < 2 * r.pad_top + 2
        /\ r.pad_left >= 0 /\ r.pad_right >= 0 /\ r.pad_top >= 0 /\ r.pad_bottom >= 0
        /\ r.target_w >= W /\ r.target_h >= H
        /\ r.pad_right - r.pad_left \in {0, 1}
        /\ r.pad_bottom - r.pad_top \in {0, 1}

\* a successful call with an odd slack on both axes
C3_Witness ==
  /\ entry = "calculate" /\ pc = "done"
  /\ ret[1].pad_right = ret[1].pad_left + 1
  /\ ret[1].pad_bottom = ret[1].pad_top + 1

(***************************************************************************)
(* C4: with both hints pinned to labels of the table, calculate returns    *)
(* exactly the entry of that (aspect, resolution) pair, and succeeds if    *)
(* and only if that entry is at least as wide and as high as the source;   *)
(* otherwise it fails with the oversized-input error.  A source equal to   *)
(* the pinned entry gets four zero pads.                                   *)
(***************************************************************************)
C4_Pinned ==
  (Calculated /\ Pinned) =>
    LET e == EntryOf(aspect_ratio, resolution)
    IN  /\ pc = "done" <=> Contains(e, W, H)
        /\ pc = "done" => IsTarget(ret[1], e)
        /\ pc = "error" => err \in OversizedExplicitTarget /\ ret = <<>>
        /\ (W = e.w /\ H = e.h) =>
             /\ pc = "done"
             /\ ret[1].pad_left = 0 /\ ret[1].pad_right = 0
             /\ ret[1].pad_top = 0 /\ ret[1].pad_bottom = 0

\* a pinned call whose source equals the pinned entry
C4_Witness ==
  /\ Calculated /\ Pinned /\ pc = "done"
  /\ W = EntryOf(aspect_ratio, resolution).w
  /\ H = EntryOf(aspect_ratio, resolution).h
  /\ ret[1].pad_right = 0 /\ ret[1].pad_bottom = 0

(***************************************************************************)
(* C5 as stated: a source wider than every table entry and higher than     *)
(* every table entry makes calculate fail with a SizeExceeded error and    *)
(* return nothing, in each of the four hint modes.                         *)
(***************************************************************************)
C5_AsStated ==
  (Calculated /\ Oversized /\ (AutoAuto \/ FixedResolution \/ FixedAspect \/ Pinned)) =>
    /\ pc = "error"
    /\ err \in SizeExceeded
    /\ ret = <<>>

(***************************************************************************)
(* C5 amended: such a source makes calculate fail and return nothing in    *)
(* each of the four hint modes; the error is a SizeExceeded one when at    *)
(* least one hint is "auto" and the OversizedExplicitTarget one when both  *)
(* hints are pinned.                                                       *)
(***************************************************************************)
C5_OversizedFails ==
  (Calculated /\ Oversized /\ (AutoAuto \/ FixedResolution \/ FixedAspect \/ Pinned)) =>
    /\ pc = "error"
    /\ ret = <<>>
    /\ ~Pinned => err \in SizeExceeded
    /\ Pinned => err \in OversizedExplicitTarget

\* an oversized source with both hints pinned has been refused
C5_Witness ==
  /\ Calculated /\ Oversized /\ Pinned
  /\ pc = "error"
  /\ err = "LargerThanTarget"

(***************************************************************************)
(* C6: with the aspect pinned to a known label and resolution "auto",      *)
(* calculate returns the first of the label's 1K, 2K, 4K entries that      *)
(* strictly contains the source, and fails if and only if the 4K entry     *)
(* does not strictly contain it.  2000x800 with "21:9" gives the 2K tier,  *)
(* 3168x1344.                                                              *)
(***************************************************************************)
C6_FixedAspect ==
  (Calculated /\ FixedAspect) =>
    LET fits == {t \in 1..Len(Tiers) : StrictlyContains(EntryOf(aspect_ratio, Tiers[t]), W, H)}
    IN  /\ pc = "error" <=> ~StrictlyContains(EntryOf(aspect_ratio, "4K"), W, H)
        /\ pc = "error" <=> fits = {}
        /\ pc = "error" => err = "TooLargeForAspectRatio" /\ ret = <<>>
        /\ pc = "done" =>
             \E t \in fits :
               /\ \A u \in fits : t <= u
               /\ IsTarget(ret[1], EntryOf(aspect_ratio, Tiers[t]))
        /\ (W = 2000 /\ H = 800 /\ aspect_ratio = "21:9") =>
             /\ pc = "done"
             /\ ret[1].resolution = "2K"
             /\ ret[1].target_w = 3168 /\ ret[1].target_h = 1344

\* the documented example has been computed
C6_Witness ==
  /\ Calculated /\ FixedAspect /\ pc = "done"
  /\ W = 2000 /\ H = 800 /\ aspect_ratio = "21:9"
  /\ ret[1].resolution = "2K"

(***************************************************************************)
(* C7: with the resolution pinned to a known tier and the aspect "auto",   *)
(* calculate returns, among the entries of that tier that strictly contain *)
(* the source, the one with the smallest area, the smaller label string    *)
(* winning between equal areas; it fails if and only if no entry of the    *)
(* tier strictly contains the source.                                      *)
(***************************************************************************)
C7_FixedResolution ==
  (Calculated /\ FixedResolution) =>
    LET cands == {e \in Entries : e.res = resolution /\ StrictlyContains(e, W, H)}
    IN  /\ pc = "error" <=> cands = {}
        /\ pc = "error" => err = "TooLargeForResolution" /\ ret = <<>>
        /\ pc = "done" =>
             \E e \in cands :
               /\ IsTarget(ret[1], e)
               /\ \A e2 \in cands :
                    \/ e2 = e
                    \/ Area(e) < Area(e2)
                    \/ Area(e) = Area(e2) /\ StrLess(e.ar, e2.ar)

\* a resolution-pinned call that had two candidates of equal area to order
C7_Witness ==
  /\ Calculated /\ FixedResolution /\ pc = "done"
  /\ \E e1, e2 \in Entries :
       /\ e1 # e2
       /\ e1.res = resolution /\ e2.res = resolution
       /\ StrictlyContains(e1, W, H) /\ StrictlyContains(e2, W, H)
       /\ Area(e1) = Area(e2)

(***************************************************************************)
(* C8: an aspect label that is neither "auto" nor a label of the table,    *)
(* or a resolution that is neither "auto" nor a tier, makes calculate fail *)
(* with the UnknownParameter error after the validation alone: nothing is  *)
(* looked up, fitted or padded, nothing is sent and nothing is returned,   *)
(* whatever the source size, an oversized one included.                    *)
(***************************************************************************)
C8_UnknownParameter ==
  (Calculated /\ (aspect_ratio \notin Labels \cup {"auto"}
                  \/ resolution \notin {"auto", "1K", "2K", "4K"})) =>
    /\ pc = "error"
    /\ err \in UnknownParameter
    /\ aspect_ratio \notin Labels \cup {"auto"} => err = "InvalidAspectRatio"
    /\ ret = <<>>
    /\ trace = <<"validate">>
    /\ sent = <<>>

\* an unknown aspect label with a pinned resolution and an oversized source
C8_Witness ==
  /\ Calculated /\ Oversized
  /\ aspect_ratio = "43:24" /\ resolution = "1K"
  /\ err = "InvalidAspectRatio"

C10_ModesAgree ==
  (Calculated /\ AutoAuto /\ pc = "done") =>
    LET a == ret[1].aspect_ratio
        r == ret[1].resolution
        best == {e \in Entries :
                   /\ StrictlyContains(e, W, H)
                   /\ \A e2 \in Entries : StrictlyContains(e2, W, H) => Area(e) <= Area(e2)}
    IN  /\ calculate(W, H, "auto", r).val = ret
        /\ calculate(W, H, a, "auto").val = ret
        /\ calculate(W, H, a, r).val = ret
        /\ Cardinality(best) = 1

\* an auto/auto call that had two candidates of equal area
C10_Witness ==
  /\ Calculated /\ AutoAuto /\ pc = "done"
  /\ \E e1, e2 \in Entries :
       /\ e1 # e2
       /\ StrictlyContains(e1, W, H) /\ StrictlyContains(e2, W, H)
       /\ Area(e1) = Area(e2)

=============================================================================
